---- MODULE Spec2Model ----
(***************************************************************************)
(* Inventory-report processing of the pharmacy backend                     *)
(* (api/routers/inventory_reports.py) over a SQLAlchemy session created    *)
(* with autoflush=False (api/database.py).                                 *)
(*                                                                         *)
(* Three layers of the store are kept apart, because the handler's         *)
(* behaviour depends on which layer a statement reads:                     *)
(*   db  - rows that are committed (what survives db.close());             *)
(*   tx  - rows as the session's open transaction sees them in SQL, i.e.   *)
(*         committed rows plus everything flushed so far;                  *)
(*   mem - the attribute values of the ProductBatch objects held in the    *)
(*         session's identity map (unflushed assignments included);        *)
(*   new - the pending objects of the session (db.new);                    *)
(* dirty - the unflushed report_item.offtake assignments of the session.    *)
(* A Query filters and aggregates on tx (no autoflush) and hands back the  *)
(* identity-mapped objects, whose attributes are read from mem.            *)
(*                                                                         *)
(* sessions holds the sessions of requests that run at the same time       *)
(* (one per request, api/deps.py get_db); only the concurrent              *)
(* specification moves them.                                               *)
(***************************************************************************)
EXTENDS Integers, Sequences, FiniteSets, TLC

\* ---------------------------------------------------------------- bounds
MaxReports    == 2   \* persisted invreports rows
MaxItems      == 2   \* invreport_items rows, and items of one report
MaxMoves      == 6   \* invreport_batches rows
MaxIn         == 2   \* largest quantity of one submitted batch
MaxExp        == 3   \* expiration dates 1..MaxExp
Threshold     == 1   \* retail_low_stock_threshold of the products (below MaxIn)

NULL == 0

VARIABLES db, tx, mem, new, dirty, pc, cur, pre, resp, arg, clock, sessions

vars == <<db, tx, mem, new, dirty, pc, cur, pre, resp, arg, clock, sessions>>

\* ---------------------------------------------------------------- catalog
BranchIds      == {1}          \* branches rows; branch 1 is a retail branch
GhostBranch    == 2            \* a branch id with no branches row
ProductIds     == {1, 2, 3}    \* products rows
UnknownProduct == 4            \* a product id with no products row
Dates          == 1..MaxExp
QtyIn          == {MaxIn}      \* quantities of submitted delivery/transfer batches
QtyOut         == 1..MaxIn     \* quantities of submitted pull-out batches
Offtakes       == 0..(MaxIn + 1) \* offtake of a submitted item

branch_type(b) == "retail"

\* The price list the products were added with.
Catalog(p) == [present |-> TRUE, cost |-> p, srp |-> p + 1]

\* The Product that ignores later price updates.
ProductAsAdded(p) ==
    [is_retail_available        |-> (p # 3),
     is_wholesale_available     |-> FALSE,
     retail_low_stock_threshold |-> Threshold,
     wholesale_low_stock_threshold |-> Threshold,
     cost |-> Catalog(p).cost, srp |-> Catalog(p).srp]

\* The products row as the session reads it (cost and srp are what
\* update_product last committed).
Product(p) ==
    [is_retail_available        |-> (p # 3),
     is_wholesale_available     |-> FALSE,
     retail_low_stock_threshold |-> Threshold,
     wholesale_low_stock_threshold |-> Threshold,
     cost |-> tx.products[p].cost, srp |-> tx.products[p].srp]

\* db.query(Product).filter(Product.id == product_id).first() finds a row.
ProductExists(p) == p \in ProductIds /\ tx.products[p].present

\* "not offered for the branch's type": the two-armed test that
\* create_inventory_report, process_batch and update_branch_product_quantity
\* all repeat.
NotOffered(b, p) ==
    \/ (branch_type(b) = "wholesale" /\ ~Product(p).is_wholesale_available)
    \/ (branch_type(b) = "retail" /\ ~Product(p).is_retail_available)


\* ---------------------------------------------------------------- helpers
RECURSIVE SumQty(_, _)
SumQty(rows, S) ==
    IF S = {} THEN 0
    ELSE LET i == CHOOSE x \in S : TRUE
         IN  rows[i].quantity + SumQty(rows, S \ {i})

ActiveOf(rows, p) ==
    {i \in DOMAIN rows : rows[i].product_id = p /\ rows[i].is_active}

ActiveSum(rows, p) == SumQty(rows, ActiveOf(rows, p))

ActiveAt(rows, p, e) ==
    {i \in ActiveOf(rows, p) : rows[i].expiration_date = e}

EmptyNew == [batches |-> <<>>, reports |-> <<>>, items |-> <<>>, moves |-> <<>>]

NoArg == [kind |-> "none", quantity |-> 0, expiration_date |-> 0]

NoCur == [branch_id |-> 0, rid |-> 0, iid |-> 0, product_id |-> 0, n |-> 0]

BranchProduct(q, a) ==
    [present |-> TRUE, quantity |-> q, is_available |-> a, low_stock_since |-> NULL]

ProductBatch(p, q, e) ==
    [product_id |-> p, quantity |-> q, expiration_date |-> e, is_active |-> TRUE]

InvReportBatch(item, type, q, e) ==
    [invreport_item_id |-> item, batch_type |-> type, quantity |-> q,
     expiration_date |-> e]

\* ---------------------------------------------------------------- session
\* Session.flush(): pending objects become rows, dirty attributes are written.
Flush(t, m, n, d) ==
    LET its == t.items \o n.items
    IN  [batches |-> m \o n.batches,
         bp      |-> t.bp,
         reports |-> t.reports \o n.reports,
         items   |-> [i \in DOMAIN its |->
                        IF i \in DOMAIN d
                        THEN [its[i] EXCEPT !.offtake = d[i]] ELSE its[i]],
         moves   |-> t.moves \o n.moves,
         metrics |-> t.metrics,
         products |-> t.products]

\* get_db's finally: db.close() discards whatever was not committed, and the
\* handler's response (status/detail) goes back to the caller.
Close(code) ==
    /\ pc' = "idle"
    /\ resp' = code
    /\ tx' = db'
    /\ mem' = db'.batches
    /\ new' = EmptyNew
    /\ dirty' = <<>>

Abort(code) ==
    /\ db' = db
    /\ Close(code)
    /\ UNCHANGED <<cur, pre, clock>>

\* ---------------------------------------------------------------- sessions
\* Requests served at the same time, each with a session of its own.
Sessions == {1, 2}

\* A session that has not begun: nothing loaded, nothing pending.
\*   mem  - the ProductBatch objects loaded from committed rows, by row id;
\*   base - their attributes as last loaded or flushed (what an UPDATE is
\*          computed against);
\*   upd  - quantities this session has flushed to committed rows and not yet
\*          committed (the rows it holds locked);
\*   ins  - the ProductBatch objects this session created; insf - their
\*          attributes as flushed (empty until the flush);
\*   bp   - the BranchProduct object, once loaded;
\*   moves, offtake - the movement rows and the offtake of its item.
NoSession ==
    [pc |-> "off", mem |-> <<>>, base |-> <<>>, upd |-> <<>>, ins |-> <<>>,
     insf |-> <<>>, bp |-> <<>>, moves |-> <<>>, offtake |-> 0]

\* ---------------------------------------------------------------- initial
\* One retail branch and three products.  create_branch / add_product seed a
\* branch_products row (quantity 0, not available) for products 1 and 3;
\* product 2 was added while the branch was inactive, so add_product, which
\* seeds active branches only, made no row for it.
Seeded ==
    [batches |-> <<>>,
     bp      |-> [p \in ProductIds |->
                   [BranchProduct(0, FALSE) EXCEPT !.present = (p # 2)]],
     reports |-> <<>>, items |-> <<>>, moves |-> <<>>, metrics |-> <<>>,
     products |-> [p \in ProductIds |-> Catalog(p)]]

Init ==
    /\ db = Seeded
    /\ tx = db
    /\ mem = <<>>
    /\ new = EmptyNew
    /\ dirty = <<>>
    /\ pc = "idle"
    /\ cur = NoCur
    /\ pre = db
    /\ resp = "none"
    /\ arg = NoArg
    /\ clock = 1
    /\ sessions = [s \in Sessions |-> NoSession]

\* ------------------------------------------------- create_inventory_report
\* POST /inventory-reports/ up to the item loop: the branch-assignment check,
\* db.add(new_report), and the branch lookup.
SubmitReport(user_branch, branch_id) ==
    /\ pc = "idle"
    /\ UNCHANGED sessions
    /\ Len(db.reports) < MaxReports
    /\ pre' = db
    /\ arg' = NoArg
    /\ clock' = clock
    /\ IF user_branch # branch_id
       THEN /\ db' = db /\ Close("forbidden") /\ cur' = NoCur
       ELSE IF branch_id \notin BranchIds
       THEN /\ db' = db /\ Close("branch_not_found")
            /\ cur' = [NoCur EXCEPT !.branch_id = branch_id]
       ELSE /\ new' = [EmptyNew EXCEPT !.reports =
                          <<[branch_id |-> branch_id, viewed_by |-> NULL]>>]
            /\ cur' = [NoCur EXCEPT !.branch_id = branch_id,
                                    !.rid = Len(tx.reports) + 1]
            /\ pc' = "items"
            /\ resp' = "none"
            /\ UNCHANGED <<db, tx, mem, dirty>>

\* Head of one iteration of `for item_data in report.items`: the product
\* lookup, the branch-type test, and the InvReportItem shell (offtake = 0).
CreateReportItem(product_id) ==
    /\ pc = "items"
    /\ UNCHANGED sessions
    /\ cur.n < MaxItems
    /\ Len(tx.items) + Len(new.items) < MaxItems
    /\ arg' = NoArg
    /\ IF ~ProductExists(product_id)
       THEN Abort("product_not_found")
       ELSE IF NotOffered(cur.branch_id, product_id)
       THEN Abort("product_unavailable")
       ELSE /\ new' = [new EXCEPT !.items = Append(@,
                          [invreport_id |-> cur.rid, product_id |-> product_id,
                           offtake |-> 0,
                           current_cost |-> Product(product_id).cost,
                           current_srp |-> Product(product_id).srp])]
            /\ cur' = [cur EXCEPT !.iid = Len(tx.items) + Len(new.items) + 1,
                                  !.product_id = product_id,
                                  !.n = @ + 1]
            /\ pc' = "deliver"
            /\ UNCHANGED <<db, tx, mem, dirty, pre, resp, clock>>

\* process_batch, followed by the caller's report_item.batches.append: the
\* InvReportBatch that process_batch itself adds is tied to no item; the
\* existing-batch query runs against the flushed rows only, so batches that
\* are still pending are not found.  .first() has no ORDER BY.
process_batch(type, q, e) ==
    LET p      == cur.product_id
        hit    == ActiveAt(tx.batches, p, e)
        orphan == InvReportBatch(NULL, type, q, e)
        tied   == InvReportBatch(cur.iid, type, q, e)
        moves  == Append(Append(new.moves, orphan), tied)
    IN  /\ arg' = [kind |-> type, quantity |-> q, expiration_date |-> e]
        /\ Len(tx.moves) + Len(moves) <= MaxMoves
        /\ IF ~tx.bp[p].present
           THEN Abort("bp_not_found")
           ELSE IF NotOffered(cur.branch_id, p)
           THEN Abort("product_unavailable")
           ELSE /\ IF hit # {}
                   THEN \E i \in hit :
                          /\ mem' = [mem EXCEPT ![i].quantity = @ + q]
                          /\ new' = [new EXCEPT !.moves = moves]
                   ELSE /\ mem' = mem
                        /\ new' = [new EXCEPT
                                     !.batches = Append(@, ProductBatch(p, q, e)),
                                     !.moves = moves]
                /\ UNCHANGED <<db, tx, dirty, pc, cur, pre, resp, clock>>

\* Step 1, deliveries.
ProcessDelivery(q, e) ==
    /\ pc = "deliver"
    /\ UNCHANGED sessions
    /\ process_batch("delivery", q, e)

EndDeliveries ==
    /\ pc = "deliver"
    /\ UNCHANGED sessions
    /\ pc' = "transfer"
    /\ arg' = NoArg
    /\ cur' = cur
    /\ UNCHANGED <<db, tx, mem, new, dirty, pre, resp, clock>>

\* Step 1, transfers.
ProcessTransfer(q, e) ==
    /\ pc = "transfer"
    /\ UNCHANGED sessions
    /\ process_batch("transfer", q, e)

\* db.flush() after the incoming stock.
EndTransfers ==
    /\ pc = "transfer"
    /\ UNCHANGED sessions
    /\ pc' = "pullout"
    /\ arg' = NoArg
    /\ cur' = cur
    /\ tx' = Flush(tx, mem, new, dirty)
    /\ mem' = tx'.batches
    /\ new' = EmptyNew
    /\ dirty' = <<>>
    /\ UNCHANGED <<db, pre, resp, clock>>

\* The comparison off by one.
PullOutShortOffByOne(have, want) == have + 1 < want

\* `existing_batch.quantity < batch.quantity` of the pull-out loop.
PullOutShort(have, want) == have < want

\* Step 2, one pull-out batch: the batch is looked up among the flushed rows
\* by exact expiration date, its quantity is read from the object in the
\* session, the movement record takes the matched batch's date, and the
\* quantity is decremented (nothing else is assigned).
ProcessPullOut(q, e) ==
    /\ pc = "pullout"
    /\ UNCHANGED sessions
    /\ Len(tx.moves) + Len(new.moves) < MaxMoves
    /\ arg' = [kind |-> "pull_out", quantity |-> q, expiration_date |-> e]
    /\ LET p   == cur.product_id
           hit == ActiveAt(tx.batches, p, e)
       IN  IF hit = {}
           THEN Abort("pull_not_found")
           ELSE \E i \in hit :
                  IF PullOutShort(mem[i].quantity, q)
                  THEN Abort("pull_insufficient")
                  ELSE /\ new' = [new EXCEPT !.moves = Append(@,
                                     InvReportBatch(cur.iid, "pull_out", q,
                                                    mem[i].expiration_date))]
                       /\ mem' = [mem EXCEPT ![i].quantity = @ - q]
                       /\ UNCHANGED <<db, tx, dirty, pc, cur, pre, resp, clock>>

EndPullOuts ==
    /\ pc = "pullout"
    /\ UNCHANGED sessions
    /\ pc' = "offtake"
    /\ arg' = NoArg
    /\ cur' = cur
    /\ UNCHANGED <<db, tx, mem, new, dirty, pre, resp, clock>>

\* ------------------------------------------------- update_batch_quantities
\* A batch the walk can reach: a flushed active row (read through its session
\* object) or a pending ProductBatch of db.new.
RowRefs(p) == {[pending |-> FALSE, i |-> i] : i \in ActiveOf(tx.batches, p)}

PendingRefs(p) ==
    {[pending |-> TRUE, i |-> j] :
        j \in {x \in DOMAIN new.batches : new.batches[x].product_id = p}}

\* The quantity as last flushed, before the session's later assignments.
RefQtyFlushed(m, nb, r) ==
    IF r.pending THEN nb[r.i].quantity ELSE tx.batches[r.i].quantity

RefQty(m, nb, r) == IF r.pending THEN nb[r.i].quantity ELSE m[r.i].quantity

RefExp(r) ==
    IF r.pending THEN new.batches[r.i].expiration_date
    ELSE mem[r.i].expiration_date

\* The batches taken in whatever order they came.
Unsorted(order) == TRUE

\* sorted(..., key=lambda x: x.expiration_date)
SortedByExpiration(order) ==
    \A a, b \in DOMAIN order : a < b => RefExp(order[a]) <= RefExp(order[b])

\* The orders sorted() can return; batches with equal dates come in whatever
\* order the database returned them.
Orders(refs) ==
    {o \in [1..Cardinality(refs) -> refs] :
        /\ \A a, b \in DOMAIN o : a # b => o[a] # o[b]
        /\ SortedByExpiration(o)}

RECURSIVE RefSum(_, _, _)
RefSum(m, nb, refs) ==
    IF refs = {} THEN 0
    ELSE LET r == CHOOSE x \in refs : TRUE
         IN  RefQty(m, nb, r) + RefSum(m, nb, refs \ {r})

\* The total as the flushed rows give it, without the session's objects.
TotalFlushed(p) == ActiveSum(tx.batches, p)

\* total_available
TotalAvailable(p) == RefSum(mem, new.batches, RowRefs(p) \cup PendingRefs(p))

\* `for batch in all_batches`: a batch no larger than what remains is switched
\* off (its quantity is left as it is); the first larger one is decremented
\* and ends the walk.
RECURSIVE Walk(_, _, _, _, _)
Walk(order, k, remaining, m, nb) ==
    IF k > Len(order) THEN [mem |-> m, batches |-> nb]
    ELSE LET r == order[k]
             q == RefQty(m, nb, r)
         IN  IF q <= remaining
             THEN IF r.pending
                  THEN Walk(order, k + 1, remaining - q, m,
                            [nb EXCEPT ![r.i].is_active = FALSE])
                  ELSE Walk(order, k + 1, remaining - q,
                            [m EXCEPT ![r.i].is_active = FALSE], nb)
             ELSE IF r.pending
                  THEN [mem |-> m,
                        batches |-> [nb EXCEPT ![r.i].quantity = @ - remaining]]
                  ELSE [mem |-> [m EXCEPT ![r.i].quantity = @ - remaining],
                        batches |-> nb]

\* Step 3, the offtake: update_batch_quantities when offtake > 0, then
\* report_item.offtake = item_data.offtake.
ProcessOfftake(used_quantity) ==
    /\ pc = "offtake"
    /\ UNCHANGED sessions
    /\ arg' = [kind |-> "offtake", quantity |-> used_quantity,
               expiration_date |-> 0]
    /\ LET p == cur.product_id
       IN  IF used_quantity > 0
           THEN IF TotalAvailable(p) < used_quantity
                THEN Abort("offtake_insufficient")
                ELSE \E order \in Orders(RowRefs(p) \cup PendingRefs(p)) :
                       LET w == Walk(order, 1, used_quantity, mem, new.batches)
                       IN  /\ mem' = w.mem
                           /\ new' = [new EXCEPT !.batches = w.batches]
                           /\ dirty' = (cur.iid :> used_quantity) @@ dirty
                           /\ pc' = "recompute"
                           /\ UNCHANGED <<db, tx, cur, pre, resp, clock>>
           ELSE /\ pc' = "recompute"
                /\ UNCHANGED <<db, tx, mem, new, dirty, cur, pre, resp, clock>>

\* --------------------------------------------- update_branch_product_quantity
\* Session.commit(): flush, then make the transaction's rows durable.
Commit(t) ==
    /\ db' = t
    /\ tx' = t
    /\ mem' = t.batches
    /\ new' = EmptyNew
    /\ dirty' = <<>>

\* The branch-type arms of update_branch_product_quantity: the product is not
\* offered for the branch's type.
Withdrawn(bp) == [bp EXCEPT !.is_available = FALSE, !.low_stock_since = NULL]

\* No timer is running.
TimerNeverRunning(low_stock_since) == FALSE

\* `branch_product.low_stock_since` as a truth value.
TimerRunning(low_stock_since) == low_stock_since # NULL

\* The test that never fires.
BecomesAvailableNever(old_quantity, total_quantity) == FALSE

\* `old_quantity == 0 and total_quantity > 0`
BecomesAvailable(old_quantity, total_quantity) ==
    old_quantity = 0 /\ total_quantity > 0

\* datetime.now() is read (and low_stock_since stamped with it).
Stamps(bp, total_quantity, threshold) ==
    /\ total_quantity <= threshold
    /\ bp.is_available
    /\ ~TimerRunning(bp.low_stock_since)

\* The body of update_branch_product_quantity after the SUM: the new quantity,
\* the low-stock timer and the 0 -> positive reactivation of one BranchProduct.
StockStatus(bp, total_quantity, threshold, now) ==
    [present  |-> TRUE,
     quantity |-> total_quantity,
     is_available |->
        IF BecomesAvailable(bp.quantity, total_quantity) THEN TRUE
        ELSE bp.is_available,
     low_stock_since |->
        IF total_quantity <= threshold /\ bp.is_available
        THEN (IF TimerRunning(bp.low_stock_since) THEN bp.low_stock_since
              ELSE now)
        ELSE IF total_quantity > threshold THEN NULL
        ELSE bp.low_stock_since]

\* "Update final quantities after all operations".  The SUM runs in SQL over
\* the flushed rows; the assignments the pull-outs and the offtake made to the
\* session's objects since the db.flush() above are written by the db.commit()
\* that ends this function, after the SUM was taken.
update_branch_product_quantity ==
    /\ pc = "recompute"
    /\ UNCHANGED sessions
    /\ pc' = "items"
    /\ arg' = NoArg
    /\ UNCHANGED <<cur, pre, resp>>
    /\ LET p  == cur.product_id
           b  == cur.branch_id
           bp == tx.bp[p]
           flushed == Flush(tx, mem, new, dirty)
       IN  IF ~bp.present
           THEN UNCHANGED <<db, tx, mem, new, dirty, clock>>
           ELSE IF NotOffered(b, p)
           THEN /\ Commit([flushed EXCEPT !.bp[p] = Withdrawn(bp)])
                /\ clock' = clock
           ELSE LET total_quantity == ActiveSum(tx.batches, p)
                    threshold ==
                        IF branch_type(b) = "wholesale"
                        THEN Product(p).wholesale_low_stock_threshold
                        ELSE Product(p).retail_low_stock_threshold
                IN  /\ Commit([flushed EXCEPT !.bp[p] =
                                 StockStatus(bp, total_quantity, threshold, clock)])
                    /\ clock' = IF Stamps(bp, total_quantity, threshold)
                                THEN clock + 1 ELSE clock

\* The commit that swallows its failure.
CommitNeverRaises(ok) == FALSE

\* `except Exception` around the handler's own db.commit().
CommitRaises(ok) == ~ok

\* After the item loop: the handler's own db.commit(); when it raises, the
\* handler rolls back and answers 400.
FinishReport ==
    /\ pc = "items"
    /\ UNCHANGED sessions
    /\ arg' = NoArg
    /\ \E ok \in BOOLEAN :
         IF CommitRaises(ok)
         THEN Abort("commit_failed")
         ELSE /\ pc' = "metrics"
              /\ IF ok
                 THEN Commit(Flush(tx, mem, new, dirty))
                 ELSE UNCHANGED <<db, tx, mem, new, dirty>>
              /\ UNCHANGED <<cur, pre, resp, clock>>

\* AnalyticsTimeSeries.record_metric: one metric record goes to the analytics
\* store.
record_metric(metric_type, value, product_id, branch_id) ==
    [metric_type |-> metric_type, value |-> value,
     product_id |-> product_id, branch_id |-> branch_id]

\* `for item in complete_report.items`: an inventory_level record for every
\* item (its value is the item's selling_area, which the model does not carry)
\* and a product_offtake record for every item with offtake > 0.
RECURSIVE MetricsOf(_, _)
MetricsOf(items, branch_id) ==
    IF items = <<>> THEN <<>>
    ELSE LET item == Head(items)
         IN  <<record_metric("inventory_level", NULL, item.product_id, branch_id)>>
             \o (IF item.offtake > 0
                 THEN <<record_metric("product_offtake", item.offtake,
                                      item.product_id, branch_id)>>
                 ELSE <<>>)
             \o MetricsOf(Tail(items), branch_id)

\* The report is read back (complete_report), its metrics are recorded, and
\* the 201 response is returned.
RecordMetrics ==
    /\ pc = "metrics"
    /\ UNCHANGED sessions
    /\ arg' = NoArg
    /\ LET complete_report ==
               SelectSeq(tx.items, LAMBDA item : item.invreport_id = cur.rid)
       IN  db' = [db EXCEPT !.metrics =
                     @ \o MetricsOf(complete_report, cur.branch_id)]
    /\ Close("created")
    /\ UNCHANGED <<cur, pre, clock>>

\* ---------------------------------------------------------------- system
Next ==
    \/ \E u, b \in BranchIds \cup {GhostBranch} : SubmitReport(u, b)
    \/ \E p \in ProductIds \cup {UnknownProduct} : CreateReportItem(p)
    \/ \E q \in QtyIn, e \in Dates : ProcessDelivery(q, e)
    \/ EndDeliveries
    \/ \E q \in QtyIn, e \in Dates : ProcessTransfer(q, e)
    \/ EndTransfers
    \/ \E q \in QtyOut, e \in Dates : ProcessPullOut(q, e)
    \/ EndPullOuts
    \/ \E n \in Offtakes : ProcessOfftake(n)
    \/ update_branch_product_quantity
    \/ FinishReport
    \/ RecordMetrics

Spec == Init /\ [][Next]_vars

\* ================================================================ low-stock timer
\* update_branch_product_quantity as a function of the BranchProduct row and
\* of what its SUM returns: the total is drawn from 0..Threshold + 1 (nothing
\* held, at the threshold, above it), so that the timer is driven through
\* set / kept / cleared / set again without the reports that move the stock.
MaxClock == 5   \* readings of datetime.now() that stamp a timer

Totals == 0..(Threshold + 1)

Recompute(p, total_quantity) ==
    /\ pc = "idle"
    /\ UNCHANGED sessions
    /\ clock < MaxClock
    /\ arg' = [kind |-> "recompute", quantity |-> total_quantity,
               expiration_date |-> 0]
    /\ cur' = [NoCur EXCEPT !.branch_id = 1, !.product_id = p]
    /\ pre' = db
    /\ LET bp == db.bp[p]
           b  == 1
           threshold ==
               IF branch_type(b) = "wholesale"
               THEN Product(p).wholesale_low_stock_threshold
               ELSE Product(p).retail_low_stock_threshold
       IN  IF ~bp.present
           THEN db' = db /\ clock' = clock
           ELSE IF NotOffered(b, p)
           THEN db' = [db EXCEPT !.bp[p] = Withdrawn(bp)] /\ clock' = clock
           ELSE /\ db' = [db EXCEPT !.bp[p] =
                            StockStatus(bp, total_quantity, threshold, clock)]
                /\ clock' = IF Stamps(bp, total_quantity, threshold)
                            THEN clock + 1 ELSE clock
    /\ tx' = db'
    /\ UNCHANGED <<mem, new, dirty, pc, resp>>

\* PATCH /branch-products/{branch_id}/{product_id}/availability
update_product_availability(p, is_available) ==
    /\ pc = "idle"
    /\ UNCHANGED sessions
    /\ arg' = [kind |-> "availability", quantity |-> 0, expiration_date |-> 0]
    /\ cur' = [NoCur EXCEPT !.branch_id = 1, !.product_id = p]
    /\ pre' = db
    /\ IF NotOffered(1, p) \/ ~db.bp[p].present
       THEN db' = db
       ELSE db' = [db EXCEPT !.bp[p].is_available = is_available]
    /\ tx' = db'
    /\ UNCHANGED <<mem, new, dirty, pc, resp, clock>>

NextTimer ==
    \/ \E p \in ProductIds, t \in Totals : Recompute(p, t)
    \/ \E p \in ProductIds, a \in BOOLEAN : update_product_availability(p, a)

SpecTimer == Init /\ [][NextTimer]_vars

\* ================================================================ concurrent submissions
\* Two POST /inventory-reports/ requests served at the same time, each a
\* one-item report on the same (branch, product), each in a session of its
\* own, against PostgreSQL at its default isolation level (READ COMMITTED; the
\* engine of api/database.py sets none, and no query uses with_for_update):
\* every statement sees the rows committed so far plus the session's own
\* flushed writes; a loaded object keeps the attributes it was loaded with; an
\* UPDATE writes the changed columns, waits while another session holds the
\* row with an uncommitted UPDATE, and then overwrites.
MaxDeliveries == 1   \* delivery batches of one concurrent submission
MaxPullOuts   == 1   \* pull-out batches of one concurrent submission

\* The pair both submissions address.
Pair == [branch_id |-> 1, product_id |-> 1]

\* The state the sequential requests are in while the concurrent ones run.
sequential == <<tx, mem, new, dirty, pc, cur, pre, resp, arg>>

\* The store after one earlier report delivered MaxIn units expiring at date 1.
Stocked ==
    [Seeded EXCEPT
        !.batches = <<ProductBatch(Pair.product_id, MaxIn, 1)>>,
        !.bp[Pair.product_id] = [BranchProduct(MaxIn, TRUE) EXCEPT
                                    !.low_stock_since = NULL],
        !.reports = <<[branch_id |-> Pair.branch_id, viewed_by |-> NULL]>>,
        !.items = <<[invreport_id |-> 1, product_id |-> Pair.product_id,
                     offtake |-> 0,
                     current_cost |-> Catalog(Pair.product_id).cost,
                     current_srp |-> Catalog(Pair.product_id).srp]>>,
        !.moves = <<InvReportBatch(NULL, "delivery", MaxIn, 1),
                    InvReportBatch(1, "delivery", MaxIn, 1)>>]

InitConcurrent ==
    /\ db \in {Seeded, Stocked}
    /\ tx = db
    /\ mem = db.batches
    /\ new = EmptyNew
    /\ dirty = <<>>
    /\ pc = "idle"
    /\ cur = NoCur
    /\ pre = db
    /\ resp = "none"
    /\ arg = NoArg
    /\ clock = 1
    /\ sessions = [s \in Sessions |-> NoSession]

\* Committed row i as the statements of session L see it.
Seen(L, i) ==
    IF i \in DOMAIN L.upd
    THEN [db.batches[i] EXCEPT !.quantity = L.upd[i]]
    ELSE db.batches[i]

\* product_batches as a SELECT of session L finds the committed rows.
VisibleRows(L) == [i \in DOMAIN db.batches |-> Seen(L, i)]

\* The rows of I come back from a query: those not yet in the identity map are
\* loaded, the others keep the attributes they have.
Load(L, I) ==
    LET rows == [i \in I \ DOMAIN L.mem |-> Seen(L, i)]
    IN  [L EXCEPT !.mem = rows @@ @, !.base = rows @@ @]

\* Loaded objects with an attribute to write.
Dirty(L) == {i \in DOMAIN L.mem : L.mem[i] # L.base[i]}

\* Another session holds one of the rows I with an uncommitted UPDATE.
Locked(s, I) ==
    \E o \in Sessions \ {s} : I \cap DOMAIN sessions[o].upd # {}

\* A batch session L can reach: a committed row or a row of its own.
SessionRefs(L, e) ==
    {[pending |-> FALSE, i |-> i] :
        i \in {x \in ActiveOf(VisibleRows(L), Pair.product_id) :
                 e = NULL \/ VisibleRows(L)[x].expiration_date = e}}
    \cup
    {[pending |-> TRUE, i |-> j] :
        j \in {x \in ActiveOf(L.insf, Pair.product_id) :
                 e = NULL \/ L.insf[x].expiration_date = e}}

CommittedIds(refs) == {r.i : r \in {x \in refs : ~x.pending}}

SessionRefExp(L, r) ==
    IF r.pending THEN L.ins[r.i].expiration_date
    ELSE L.mem[r.i].expiration_date

\* sorted(..., key=lambda x: x.expiration_date) over the session's objects.
SessionOrders(L, refs) ==
    {o \in [1..Cardinality(refs) -> refs] :
        /\ \A a, b \in DOMAIN o : a # b => o[a] # o[b]
        /\ \A a, b \in DOMAIN o :
             a < b => SessionRefExp(L, o[a]) <= SessionRefExp(L, o[b])}

PullOutsOf(moves) ==
    SelectSeq(moves, LAMBDA m : m.batch_type = "pull_out")

\* HTTPException: the session is closed and its work rolled back.
SessionFails(s) ==
    /\ sessions' = [sessions EXCEPT ![s] = [NoSession EXCEPT !.pc = "failed"]]
    /\ UNCHANGED <<db, clock>>

\* The request arrives: branch check, report shell, item shell.
SessionBegin(s) ==
    /\ sessions[s].pc = "off"
    /\ sessions' = [sessions EXCEPT ![s].pc = "deliver"]
    /\ UNCHANGED <<db, clock, sequential>>

\* process_batch in session s.
SessionDelivery(s, q, e) ==
    LET L0  == sessions[s]
        L   == IF L0.bp = <<>>
               THEN [L0 EXCEPT !.bp = <<db.bp[Pair.product_id]>>] ELSE L0
        hit == ActiveAt(VisibleRows(L), Pair.product_id, e)
        moves == L.moves \o <<InvReportBatch(NULL, "delivery", q, e),
                               InvReportBatch(1, "delivery", q, e)>>
    IN  /\ L0.pc = "deliver"
        /\ Len(L0.moves) < 2 * MaxDeliveries
        /\ IF hit # {}
           THEN \E i \in hit :
                  sessions' = [sessions EXCEPT ![s] =
                      [Load(L, {i}) EXCEPT !.mem[i].quantity = @ + q,
                                           !.moves = moves]]
           ELSE sessions' = [sessions EXCEPT ![s] =
                      [L EXCEPT !.ins = Append(@, ProductBatch(Pair.product_id, q, e)),
                                !.moves = moves]]
        /\ UNCHANGED <<db, clock, sequential>>

\* db.flush() after the incoming stock, in session s.
SessionFlush(s) ==
    LET L == sessions[s]
    IN  /\ L.pc = "deliver"
        /\ ~Locked(s, Dirty(L))
        /\ sessions' = [sessions EXCEPT ![s] =
              [L EXCEPT !.pc = "pullout",
                        !.upd = [i \in Dirty(L) |-> L.mem[i].quantity],
                        !.base = L.mem,
                        !.insf = L.ins]]
        /\ UNCHANGED <<db, clock, sequential>>

\* One pull-out batch in session s.
SessionPullOut(s, q, e) ==
    LET L    == sessions[s]
        refs == SessionRefs(L, e)
    IN  /\ L.pc = "pullout"
        /\ Len(PullOutsOf(L.moves)) < MaxPullOuts
        /\ UNCHANGED sequential
        /\ IF refs = {}
           THEN SessionFails(s)
           ELSE \E r \in refs :
                  LET L1 == Load(L, CommittedIds({r}))
                  IN  IF PullOutShort(RefQty(L1.mem, L1.ins, r), q)
                      THEN SessionFails(s)
                      ELSE /\ sessions' = [sessions EXCEPT ![s] =
                                 [L1 EXCEPT
                                    !.mem = IF r.pending THEN @
                                            ELSE [@ EXCEPT ![r.i].quantity = @ - q],
                                    !.ins = IF r.pending
                                            THEN [@ EXCEPT ![r.i].quantity = @ - q]
                                            ELSE @,
                                    !.moves = Append(@,
                                        InvReportBatch(1, "pull_out", q,
                                                       SessionRefExp(L1, r)))]]
                           /\ UNCHANGED <<db, clock>>

SessionEndPullOuts(s) ==
    /\ sessions[s].pc = "pullout"
    /\ sessions' = [sessions EXCEPT ![s].pc = "offtake"]
    /\ UNCHANGED <<db, clock, sequential>>

\* update_batch_quantities and report_item.offtake in session s.
SessionOfftake(s, used_quantity) ==
    LET L    == sessions[s]
        refs == SessionRefs(L, NULL)
        L1   == Load(L, CommittedIds(refs))
    IN  /\ L.pc = "offtake"
        /\ UNCHANGED sequential
        /\ IF ~(used_quantity > 0)
           THEN /\ sessions' = [sessions EXCEPT ![s].pc = "recompute"]
                /\ UNCHANGED <<db, clock>>
           ELSE IF RefSum(L1.mem, L1.ins, refs) < used_quantity
           THEN SessionFails(s)
           ELSE /\ \E order \in SessionOrders(L1, refs) :
                     LET w == Walk(order, 1, used_quantity, L1.mem, L1.ins)
                     IN  sessions' = [sessions EXCEPT ![s] =
                            [L1 EXCEPT !.pc = "recompute",
                                       !.mem = w.mem,
                                       !.ins = w.batches,
                                       !.offtake = used_quantity]]
                /\ UNCHANGED <<db, clock>>

\* update_branch_product_quantity in session s, with the db.commit() that ends
\* it (the handler's own commit afterwards finds nothing left to write).
SessionRecompute(s) ==
    LET L   == sessions[s]
        p   == Pair.product_id
        bp  == IF L.bp = <<>> THEN db.bp[p] ELSE L.bp[1]
        total_quantity == ActiveSum(VisibleRows(L), p) + ActiveSum(L.insf, p)
        threshold == Product(p).retail_low_stock_threshold
        status == StockStatus(bp, total_quantity, threshold, clock)
        rid == Len(db.reports) + 1
        iid == Len(db.items) + 1
        written ==
            [i \in DOMAIN db.batches |->
                IF i \notin DOMAIN L.mem THEN db.batches[i]
                ELSE [db.batches[i] EXCEPT
                        !.quantity =
                            IF i \in DOMAIN L.upd
                               \/ L.mem[i].quantity # L.base[i].quantity
                            THEN L.mem[i].quantity ELSE @,
                        !.is_active =
                            IF L.mem[i].is_active # L.base[i].is_active
                            THEN L.mem[i].is_active ELSE @]]
    IN  /\ L.pc = "recompute"
        /\ ~Locked(s, Dirty(L))
        /\ db' = [batches |-> written \o L.ins,
                  bp |-> [db.bp EXCEPT ![p] =
                            [@ EXCEPT
                               !.quantity =
                                  IF status.quantity # bp.quantity
                                  THEN status.quantity ELSE @,
                               !.is_available =
                                  IF status.is_available # bp.is_available
                                  THEN status.is_available ELSE @,
                               !.low_stock_since =
                                  IF status.low_stock_since # bp.low_stock_since
                                  THEN status.low_stock_since ELSE @]],
                  reports |-> Append(db.reports,
                                [branch_id |-> Pair.branch_id, viewed_by |-> NULL]),
                  items |-> Append(db.items,
                              [invreport_id |-> rid, product_id |-> p,
                               offtake |-> L.offtake,
                               current_cost |-> Product(p).cost,
                               current_srp |-> Product(p).srp]),
                  moves |-> db.moves \o
                              [k \in DOMAIN L.moves |->
                                 IF L.moves[k].invreport_item_id = NULL
                                 THEN L.moves[k]
                                 ELSE [L.moves[k] EXCEPT !.invreport_item_id = iid]],
                  metrics |-> db.metrics,
                  products |-> db.products]
        /\ clock' = IF Stamps(bp, total_quantity, threshold)
                    THEN clock + 1 ELSE clock
        /\ sessions' = [sessions EXCEPT ![s] =
              [NoSession EXCEPT !.pc = "done", !.moves = L.moves,
                                !.offtake = L.offtake]]
        /\ UNCHANGED sequential

NextConcurrent ==
    \/ \E s \in Sessions : SessionBegin(s)
    \/ \E s \in Sessions, q \in QtyIn, e \in Dates : SessionDelivery(s, q, e)
    \/ \E s \in Sessions : SessionFlush(s)
    \/ \E s \in Sessions, q \in QtyOut, e \in Dates : SessionPullOut(s, q, e)
    \/ \E s \in Sessions : SessionEndPullOuts(s)
    \/ \E s \in Sessions, n \in Offtakes : SessionOfftake(s, n)
    \/ \E s \in Sessions : SessionRecompute(s)

SpecConcurrent == InitConcurrent /\ [][NextConcurrent]_vars

\* ================================================================ any integer
\* The request schema (BatchDeliveryInfo, PullOutBatchInfo, InvReportItemBase)
\* declares the quantities and the offtake as plain int: reports whose
\* quantities are zero or negative pass validation.  The requests here carry
\* no transfer batches, name an existing branch and existing products, and
\* date their batches before the last date.
Quantities == (0 - 1)..MaxIn

EarlyDates == 1..(MaxExp - 1)

NextAnyInt ==
    \/ \E b \in BranchIds : SubmitReport(b, b)
    \/ \E p \in ProductIds : CreateReportItem(p)
    \/ \E q \in Quantities, e \in EarlyDates : ProcessDelivery(q, e)
    \/ EndDeliveries
    \/ EndTransfers
    \/ \E q \in Quantities, e \in EarlyDates : ProcessPullOut(q, e)
    \/ EndPullOuts
    \/ \E n \in Quantities : ProcessOfftake(n)
    \/ update_branch_product_quantity
    \/ FinishReport
    \/ RecordMetrics

SpecAnyInt == Init /\ [][NextAnyInt]_vars

\* ================================================================ records
\* What the other endpoints do to a report once it is created: the two that
\* acknowledge it (get_inventory_report, mark_report_as_viewed) and the two
\* that write the products its items refer to (update_product,
\* delete_product).  Each is one request served at pc = "idle", committed or
\* refused before the next one starts.
Users ==
    {[id |-> 1, role |-> "admin",      branch_id |-> NULL],
     [id |-> 2, role |-> "admin",      branch_id |-> NULL],
     [id |-> 3, role |-> "pharmacist", branch_id |-> 1],
     [id |-> 4, role |-> "wholesaler", branch_id |-> NULL]}

ReportIds == 1..MaxReports         \* ids of reports, created or not yet

Reported == {1}                    \* the product the reports are about
NewPrices == {NULL, 7}             \* NULL: the field is not in the request

\* role_required(allowed_roles): 403 unless the caller's role is allowed.
role_required(allowed_roles, user) == user.role \in allowed_roles

\* The request's commit, then get_db's close; the handler's locals are gone.
Done(code) ==
    /\ Close(code)
    /\ pre' = db'
    /\ cur' = NoCur
    /\ arg' = NoArg
    /\ clock' = clock

\* The request ends without a commit.
Refuse(code) ==
    /\ db' = db
    /\ Done(code)

\* GET /inventory-reports/{report_id}: an admin's fetch of a report nobody has
\* viewed stamps viewed_by and commits; the items are then sorted by
\* x.product.name, which raises when an item has no product.
get_inventory_report(user, report_id) ==
    /\ pc = "idle"
    /\ UNCHANGED sessions
    /\ IF ~role_required({"admin", "pharmacist", "wholesaler"}, user)
       THEN Refuse("forbidden")
       ELSE IF report_id \notin DOMAIN db.reports
       THEN Refuse("report_not_found")
       ELSE IF /\ user.role \in {"pharmacist", "wholesaler"}
               /\ user.branch_id # db.reports[report_id].branch_id
       THEN Refuse("forbidden")
       ELSE /\ db' = IF user.role = "admin"
                        /\ db.reports[report_id].viewed_by = NULL
                     THEN [db EXCEPT !.reports[report_id].viewed_by = user.id]
                     ELSE db
            /\ IF \E i \in DOMAIN db.items :
                     /\ db.items[i].invreport_id = report_id
                     /\ db.items[i].product_id = NULL
               THEN Done("error")
               ELSE Done("ok")

\* POST /inventory-reports/{report_id}/mark-viewed.
mark_report_as_viewed(user, report_id) ==
    /\ pc = "idle"
    /\ UNCHANGED sessions
    /\ IF ~role_required({"admin"}, user)
       THEN Refuse("forbidden")
       ELSE IF report_id \notin DOMAIN db.reports
       THEN Refuse("report_not_found")
       ELSE /\ db' = IF db.reports[report_id].viewed_by = NULL
                     THEN [db EXCEPT !.reports[report_id].viewed_by = user.id]
                     ELSE db
            /\ Done("ok")

\* PUT /products/{product_id}: the fields of the request are set on the
\* products row and committed (cost, srp: NULL when the request leaves the
\* field out).
update_product(user, product_id, cost, srp) ==
    /\ pc = "idle"
    /\ UNCHANGED sessions
    /\ IF ~role_required({"admin"}, user)
       THEN Refuse("forbidden")
       ELSE IF ~ProductExists(product_id)
       THEN Refuse("product_not_found")
       ELSE /\ db' = [db EXCEPT
                        !.products[product_id].cost =
                            IF cost # NULL THEN cost ELSE @,
                        !.products[product_id].srp =
                            IF srp # NULL THEN srp ELSE @]
            /\ Done("ok")

\* The rows a deleted parent leaves behind: a relationship without a delete
\* cascade sets the children's foreign key to NULL.
Orphaned(rows, product_id) ==
    [i \in DOMAIN rows |->
        IF rows[i].product_id = product_id
        THEN [rows[i] EXCEPT !.product_id = NULL] ELSE rows[i]]

\* DELETE /products/{product_id}: refused while a branch holds the product
\* available with stock; otherwise the branch_products rows and the product
\* are deleted, BranchProduct.batches and Product.inv_report_items are
\* emptied by the unit of work, and the commit makes it durable.
delete_product(user, product_id) ==
    /\ pc = "idle"
    /\ UNCHANGED sessions
    /\ IF ~role_required({"admin"}, user)
       THEN Refuse("forbidden")
       ELSE IF ~ProductExists(product_id)
       THEN Refuse("product_not_found")
       ELSE IF /\ db.bp[product_id].present
               /\ db.bp[product_id].is_available
               /\ db.bp[product_id].quantity > 0
       THEN Refuse("has_active_stock")
       ELSE /\ db' = [db EXCEPT
                        !.bp[product_id] =
                            [BranchProduct(0, FALSE) EXCEPT !.present = FALSE],
                        !.batches =
                            IF db.bp[product_id].present
                            THEN Orphaned(@, product_id) ELSE @,
                        !.items = Orphaned(@, product_id),
                        !.products[product_id].present = FALSE]
            /\ Done("ok")

\* Reports of branch 1 on one product, with deliveries of one date, no
\* pull-outs and no offtake, and the four endpoints above between them.
NextRecords ==
    \/ \E b \in BranchIds : SubmitReport(b, b)
    \/ \E p \in Reported : CreateReportItem(p)
    \/ \E q \in QtyIn : ProcessDelivery(q, 1)
    \/ EndDeliveries
    \/ EndTransfers
    \/ EndPullOuts
    \/ ProcessOfftake(0)
    \/ update_branch_product_quantity
    \/ FinishReport
    \/ RecordMetrics
    \/ \E u \in Users, r \in ReportIds : get_inventory_report(u, r)
    \/ \E u \in Users, r \in ReportIds : mark_report_as_viewed(u, r)
    \/ \E u \in Users, p \in Reported, c \in NewPrices, r \in NewPrices :
          update_product(u, p, c, r)
    \/ \E u \in Users, p \in Reported : delete_product(u, p)

SpecRecords == Init /\ [][NextRecords]_vars

\* ================================================================ seeding
\* create_branch, add_product and update_branch on a store that starts with no
\* branch and no product.  The store here holds the three tables they write:
\* branches (is_active by id), products (by id) and branch_products (one
\* record per row).
MaxBranches == 3
MaxProducts == 3

InitSeeding ==
    /\ db = [branches |-> <<>>, products |-> <<>>, bp |-> {}]
    /\ tx = db
    /\ mem = <<>>
    /\ new = EmptyNew
    /\ dirty = <<>>
    /\ pc = "idle"
    /\ cur = NoCur
    /\ pre = db
    /\ resp = "none"
    /\ arg = NoArg
    /\ clock = 1
    /\ sessions = [s \in Sessions |-> NoSession]

\* The branch_products row both endpoints create.
SeedRow(branch_id, product_id) ==
    [branch_id |-> branch_id, product_id |-> product_id,
     quantity |-> 0, is_available |-> FALSE]

\* add_product's branch query.
ActiveBranches(branches) == {b \in DOMAIN branches : branches[b].is_active}

Seeding(store) ==
    /\ db' = store
    /\ tx' = store
    /\ pre' = db
    /\ UNCHANGED <<mem, new, dirty, pc, cur, resp, arg, clock, sessions>>

\* POST /branches/: the branch, then one row per existing product.
create_branch(is_active) ==
    /\ pc = "idle"
    /\ Len(db.branches) < MaxBranches
    /\ LET id == Len(db.branches) + 1
       IN  Seeding([db EXCEPT
                      !.branches = Append(@, [is_active |-> is_active]),
                      !.bp = @ \cup {SeedRow(id, p) : p \in DOMAIN db.products}])

\* POST /products/: the product, then one row per branch with is_active = True.
add_product ==
    /\ pc = "idle"
    /\ Len(db.products) < MaxProducts
    /\ LET id == Len(db.products) + 1
       IN  Seeding([db EXCEPT
                      !.products = Append(@, [id |-> id]),
                      !.bp = @ \cup {SeedRow(b, id) :
                                        b \in ActiveBranches(db.branches)}])

\* PUT /branches/{branch_id} with is_active in the request.
update_branch(branch_id, is_active) ==
    /\ pc = "idle"
    /\ branch_id \in DOMAIN db.branches
    /\ Seeding([db EXCEPT !.branches[branch_id].is_active = is_active])

NextSeeding ==
    \/ \E a \in BOOLEAN : create_branch(a)
    \/ add_product
    \/ \E b \in 1..MaxBranches, a \in BOOLEAN : update_branch(b, a)

SpecSeeding == InitSeeding /\ [][NextSeeding]_vars

\* ================================================================ ledger
\* The wholesale ledger of one client: create_transaction, add_payment,
\* void_payment and void_transaction, one request after another.  The store
\* here holds the client row, the transactions and the payments.  Amounts are
\* floats in the source; here they are whole numbers of a fifth of a cent
\* (0.002), so that round(x, 2) has something to round and never meets a tie.
MaxTransactions == 2
MaxPayments == 3
MaxVoids == 2      \* void_payment requests served

Cent == 5          \* 0.01 in fifths of a cent

\* round(x, 2)
Round2(x) ==
    LET r == x % Cent
    IN  IF 2 * r < Cent THEN x - r ELSE x + (Cent - r)

CreditLimits == {9, 4 * Cent}       \* Client.credit_limit: float, ge=0
ItemTotals == {0, 8, 2 * Cent}      \* sum of markup_price * quantity
InitialPayments == {0, Cent, 3 * Cent}   \* initial_payment: float, ge=0
PaymentAmounts == {3, Cent}         \* PaymentCreate.amount: float, gt=0

InitLedger ==
    /\ \E credit_limit \in CreditLimits :
         db = [client |-> [credit_limit |-> credit_limit, current_balance |-> 0],
               transactions |-> <<>>, payments |-> <<>>, voids |-> 0]
    /\ tx = db
    /\ mem = <<>>
    /\ new = EmptyNew
    /\ dirty = <<>>
    /\ pc = "idle"
    /\ cur = NoCur
    /\ pre = db
    /\ resp = "none"
    /\ arg = NoArg
    /\ clock = 1
    /\ sessions = [s \in Sessions |-> NoSession]

\* Client.available_credit
available_credit(client) == client.credit_limit - client.current_balance

\* Transaction.balance
balance(transaction) == transaction.total_amount - transaction.amount_paid

Payment(transaction_id, amount) ==
    [transaction_id |-> transaction_id, amount |-> amount, is_void |-> FALSE]

\* The request's commit (or its refusal, when the store is the one it found)
\* and its response.
Served(store, code) ==
    /\ db' = store
    /\ tx' = store
    /\ pre' = db
    /\ resp' = code
    /\ UNCHANGED <<mem, new, dirty, pc, cur, arg, clock, sessions>>

\* The amount create_transaction records as paid.
AmountPaid(total_amount, initial_payment) ==
    IF initial_payment >= total_amount THEN Round2(total_amount)
    ELSE IF initial_payment > 0 THEN Round2(initial_payment)
    ELSE 0

PaymentStatus(total_amount, initial_payment) ==
    IF initial_payment >= total_amount THEN "paid"
    ELSE IF initial_payment > 0 THEN "partial"
    ELSE "pending"

\* POST /transactions/: offered is the outcome of the items' branch_products
\* lookups, total_amount the sum of the items' totals.
create_transaction(total_amount, initial_payment, offered) ==
    LET client            == db.client
        remaining_balance == total_amount - initial_payment
        amount_paid       == AmountPaid(total_amount, initial_payment)
        id                == Len(db.transactions) + 1
    IN  /\ pc = "idle"
        /\ Len(db.transactions) < MaxTransactions
        /\ Len(db.payments) < MaxPayments
        /\ IF ~offered
           THEN Served(db, "product_unavailable")
           ELSE IF remaining_balance > available_credit(client)
           THEN Served(db, "credit_exceeded")
           ELSE Served([db EXCEPT
                          !.client.current_balance =
                              Round2(@ + remaining_balance),
                          !.transactions = Append(@,
                              [total_amount |-> Round2(total_amount),
                               amount_paid |-> amount_paid,
                               payment_status |->
                                   PaymentStatus(total_amount, initial_payment),
                               is_void |-> FALSE]),
                          !.payments =
                              IF amount_paid > 0
                              THEN Append(@, Payment(id, amount_paid)) ELSE @],
                       "created")

\* POST /transactions/{transaction_id}/payment
add_payment(transaction_id, amount) ==
    /\ pc = "idle"
    /\ Len(db.payments) < MaxPayments
    /\ IF transaction_id \notin DOMAIN db.transactions
       THEN Served(db, "transaction_not_found")
       ELSE LET transaction == db.transactions[transaction_id]
                amount_paid == transaction.amount_paid + amount
            IN  IF transaction.is_void
                THEN Served(db, "transaction_void")
                ELSE IF amount > Round2(balance(transaction))
                THEN Served(db, "payment_exceeds_balance")
                ELSE Served([db EXCEPT
                               !.payments = Append(@,
                                   Payment(transaction_id, Round2(amount))),
                               !.transactions[transaction_id].amount_paid =
                                   amount_paid,
                               !.transactions[transaction_id].payment_status =
                                   IF amount_paid >= transaction.total_amount
                                   THEN "paid" ELSE "partial",
                               !.client.current_balance = @ - amount],
                            "ok")

\* POST /transactions/{transaction_id}/payment/{payment_id}/void: the payment
\* is looked up by id and transaction; neither its is_void nor the
\* transaction's is read.
void_payment(transaction_id, payment_id) ==
    /\ pc = "idle"
    /\ db.voids < MaxVoids
    /\ IF \/ payment_id \notin DOMAIN db.payments
          \/ db.payments[payment_id].transaction_id # transaction_id
       THEN Served([db EXCEPT !.voids = @ + 1], "payment_not_found")
       ELSE LET payment     == db.payments[payment_id]
                transaction == db.transactions[transaction_id]
                amount_paid == transaction.amount_paid - payment.amount
            IN  Served([db EXCEPT
                          !.voids = @ + 1,
                          !.transactions[transaction_id].amount_paid =
                              amount_paid,
                          !.transactions[transaction_id].payment_status =
                              IF amount_paid = 0 THEN "pending" ELSE "partial",
                          !.client.current_balance = @ + payment.amount,
                          !.payments[payment_id].is_void = TRUE],
                       "ok")

\* The non-void payments of a transaction, which void_transaction voids.
LivePayments(payments, transaction_id) ==
    {i \in DOMAIN payments :
        payments[i].transaction_id = transaction_id /\ ~payments[i].is_void}

RECURSIVE SumAmount(_, _)
SumAmount(payments, S) ==
    IF S = {} THEN 0
    ELSE LET i == CHOOSE x \in S : TRUE
         IN  payments[i].amount + SumAmount(payments, S \ {i})

\* POST /transactions/{transaction_id}/void
void_transaction(transaction_id) ==
    /\ pc = "idle"
    /\ IF transaction_id \notin DOMAIN db.transactions
       THEN Served(db, "transaction_not_found")
       ELSE LET transaction == db.transactions[transaction_id]
                live        == LivePayments(db.payments, transaction_id)
                refunded    == SumAmount(db.payments, live)
                amount_paid == transaction.amount_paid - refunded
                unpaid      == Round2(transaction.total_amount - amount_paid)
            IN  IF transaction.is_void
                THEN Served(db, "already_void")
                ELSE Served([db EXCEPT
                               !.payments = [i \in DOMAIN @ |->
                                   IF i \in live
                                   THEN [@[i] EXCEPT !.is_void = TRUE]
                                   ELSE @[i]],
                               !.transactions[transaction_id] =
                                   [transaction EXCEPT
                                      !.amount_paid = amount_paid,
                                      !.payment_status = "pending",
                                      !.is_void = TRUE],
                               !.client.current_balance =
                                   IF unpaid > 0
                                   THEN @ + refunded - unpaid
                                   ELSE @ + refunded],
                            "ok")

NextLedger ==
    \/ \E total_amount \in ItemTotals, initial_payment \in InitialPayments,
          offered \in BOOLEAN :
          create_transaction(total_amount, initial_payment, offered)
    \/ \E t \in 1..MaxTransactions, amount \in PaymentAmounts :
          add_payment(t, amount)
    \/ \E t \in 1..MaxTransactions, p \in 1..MaxPayments : void_payment(t, p)
    \/ \E t \in 1..MaxTransactions : void_transaction(t)

SpecLedger == InitLedger /\ [][NextLedger]_vars

\* ================================================================ expiry
\* ProductBatch.expiry_status as a function of the batch's expiration_date and
\* of date.today(): the date of the batch is drawn at the start, the
\* classifier is applied, and the day advances.  Here clock is today, arg the
\* batch, resp the tier returned.
LastDate == 95     \* expiration dates, in days
LastToday == 3     \* days on which the classifier is read

InitExpiry ==
    /\ db = Seeded
    /\ tx = db
    /\ mem = <<>>
    /\ new = EmptyNew
    /\ dirty = <<>>
    /\ pc = "idle"
    /\ cur = NoCur
    /\ pre = db
    /\ resp = "none"
    /\ \E e \in 1..LastDate :
         arg = [kind |-> "batch", quantity |-> 1, expiration_date |-> e]
    /\ clock = 1
    /\ sessions = [s \in Sessions |-> NoSession]

\* ProductBatch.days_until_expiry
days_until_expiry(batch, today) == batch.expiration_date - today

\* The classifier with its boundaries one day early.
expiry_status_early(batch, today) ==
    LET days == days_until_expiry(batch, today)
    IN  IF days < 0 THEN "expired"
        ELSE IF days < 30 THEN "critical"
        ELSE IF days < 90 THEN "warning"
        ELSE "good"

\* ProductBatch.expiry_status
expiry_status(batch, today) ==
    LET days == days_until_expiry(batch, today)
    IN  IF days <= 0 THEN "expired"
        ELSE IF days <= 30 THEN "critical"
        ELSE IF days <= 90 THEN "warning"
        ELSE "good"

\* A read of batch.expiry_status.
Classify ==
    /\ pc = "idle"
    /\ resp = "none"
    /\ resp' = expiry_status(arg, clock)
    /\ UNCHANGED <<db, tx, mem, new, dirty, pc, cur, pre, arg, clock, sessions>>

\* The next day.
Tomorrow ==
    /\ pc = "idle"
    /\ resp # "none"
    /\ clock < LastToday
    /\ clock' = clock + 1
    /\ resp' = "none"
    /\ UNCHANGED <<db, tx, mem, new, dirty, pc, cur, pre, arg, sessions>>

NextExpiry == Classify \/ Tomorrow

SpecExpiry == InitExpiry /\ [][NextExpiry]_vars

\* ================================================================ claims
\* The last submission ended with 201 Created.
Created == pc = "idle" /\ resp = "created"

\* Products of the items the last submission persisted.
Touched ==
    {db.items[i].product_id :
        i \in {x \in DOMAIN db.items : db.items[x].invreport_id = cur.rid}}

\* C1: after every committed report, for every touched (branch, product),
\* BranchProduct.quantity equals the sum of the quantities of the pair's
\* active ProductBatch rows.
C1_SumConsistency ==
    Created =>
        \A p \in Touched :
            db.bp[p].present => db.bp[p].quantity = ActiveSum(db.batches, p)

\* C2: after any sequence of reports there is at most one active ProductBatch
\* per (branch, product, expiration date).
C2_NoDuplicateLots ==
    Created =>
        \A p \in ProductIds, e \in Dates :
            Cardinality(ActiveAt(db.batches, p, e)) <= 1

\* C3: after a committed report every active ProductBatch has quantity > 0.
C3_ActivePositive ==
    Created =>
        \A i \in DOMAIN db.batches :
            db.batches[i].is_active => db.batches[i].quantity > 0

\* A successful update_batch_quantities call (offtake > 0) is the step from
\* "offtake" to "recompute" that consumed a positive quantity.
ConsumeStep == pc = "offtake" /\ pc' = "recompute" /\ arg'.quantity > 0

\* C4: offtake consumption is first-expired-first-out: a batch is decremented
\* or deactivated only if every active batch of the pair with a strictly
\* earlier expiration date is deactivated by the same call; at most one batch
\* is left partially consumed; every batch expiring after the partially
\* consumed one keeps its quantity and its active flag.
C4_Fefo ==
    [][ConsumeStep =>
        LET act     == ActiveOf(tx.batches, cur.product_id)
            touched == {i \in DOMAIN mem : mem'[i] # mem[i]}
            partial == {i \in touched : mem'[i].is_active}
        IN  /\ DOMAIN mem' = DOMAIN mem
            /\ new'.batches = new.batches
            /\ touched \subseteq act
            /\ \A i \in touched, j \in act :
                 mem[j].expiration_date < mem[i].expiration_date
                    => (mem[j].is_active /\ ~mem'[j].is_active)
            /\ Cardinality(partial) <= 1
            /\ \A i \in partial, j \in act :
                 mem[j].expiration_date > mem[i].expiration_date
                    => mem'[j] = mem[j]]_vars

\* The spec's example, scaled: three lots E1 < E2 < E3 untouched by pull-outs,
\* consume more than the first and less than the first two: E1 is switched
\* off, E2 is left with a remainder, E3 is as it was.
C4_Witness ==
    /\ pc = "recompute"
    /\ arg.kind = "offtake"
    /\ new.moves = <<>>
    /\ \E i, j, k \in ActiveOf(tx.batches, cur.product_id) :
         /\ tx.batches[i].expiration_date < tx.batches[j].expiration_date
         /\ tx.batches[j].expiration_date < tx.batches[k].expiration_date
         /\ ~mem[i].is_active
         /\ mem[j].is_active
         /\ 0 < mem[j].quantity /\ mem[j].quantity < tx.batches[j].quantity
         /\ mem[k] = tx.batches[k]

\* C5: every batch an offtake consume deactivates ends with quantity 0.
\* (At "recompute" tx still holds the rows as flushed before the pull-outs and
\* the consume; mem holds what the consume left.)
C5_ExhaustedIsZero ==
    (pc = "recompute" /\ arg.kind = "offtake") =>
        \A i \in DOMAIN mem :
            (tx.batches[i].is_active /\ ~mem[i].is_active) => mem[i].quantity = 0

\* C6: a report with an offtake larger than the pair's active total fails and
\* leaves every ProductBatch, the BranchProduct and the report tables as they
\* were before the submission.
C6_InsufficientOfftakeRollsBack ==
    (pc = "idle" /\ resp = "offtake_insufficient") => db = pre

\* C7: a report is all-or-nothing across its items: when item k > 1 fails with
\* an insufficient-offtake, pull-out not-found or pull-out insufficient error,
\* nothing of items 1..k-1 is persisted.
C7_AllOrNothing ==
    (/\ pc = "idle"
     /\ resp \in {"offtake_insufficient", "pull_not_found", "pull_insufficient"}
     /\ cur.n > 1)
        => db = pre

\* C8: validation precedes mutation: a report rejected because the branch or
\* the product of any of its items does not exist or is not offered for the
\* branch's type has made no write durable.
C8_ValidationBeforeMutation ==
    (/\ pc = "idle"
     /\ resp \in {"branch_not_found", "product_not_found", "product_unavailable"})
        => db = pre

\* A successful pull-out is a step that stays in "pullout" and records a
\* movement.
PullOutStep == pc = "pullout" /\ pc' = "pullout" /\ new'.moves # new.moves

\* C9: a successful pull-out of q against date E decrements exactly the active
\* batch of (branch, product, E) by q, leaves every other batch unchanged, adds
\* exactly one pull_out movement record (quantity q, the matched batch's date)
\* to the report item, and deactivates the batch when q equals its quantity.
C9_PullOutExact ==
    [][PullOutStep =>
        LET q == arg'.quantity
            e == arg'.expiration_date
        IN  \E i \in ActiveAt(tx.batches, cur.product_id, e) :
              /\ mem'[i].quantity = mem[i].quantity - q
              /\ mem'[i].expiration_date = mem[i].expiration_date
              /\ \A j \in DOMAIN mem : j # i => mem'[j] = mem[j]
              /\ new'.moves = Append(new.moves,
                    InvReportBatch(cur.iid, "pull_out", q, mem[i].expiration_date))
              /\ (mem[i].quantity = q => ~mem'[i].is_active)]_vars

RECURSIVE PulledAt(_, _)
\* Sum of the pull_out movement quantities recorded for date e in moves.
PulledAt(moves, e) ==
    IF moves = <<>> THEN 0
    ELSE (IF Head(moves).batch_type = "pull_out" /\ Head(moves).expiration_date = e
          THEN Head(moves).quantity ELSE 0) + PulledAt(Tail(moves), e)

\* During an item's pull-outs tx holds the lots as they were when the
\* pull-outs began, and new.moves the item's pull-out records so far.
PulledWithinHeld ==
    pc \in {"pullout", "offtake"} =>
        \A e \in Dates :
            PulledAt(new.moves, e)
                <= SumQty(tx.batches, ActiveAt(tx.batches, cur.product_id, e))

\* C10: a pull-out fails when no active batch exists for the exact (branch,
\* product, date) or when the batch's current quantity is less than requested;
\* so the pull-out quantities one item records against a lot never exceed what
\* the lot held when the item's pull-outs began.
C10_PullOutGuard ==
    [][(pc = "pullout" /\ arg'.kind = "pull_out") =>
        LET q   == arg'.quantity
            hit == ActiveAt(tx.batches, cur.product_id, arg'.expiration_date)
        IN  /\ hit = {} => (pc' = "idle" /\ resp' = "pull_not_found")
            /\ (hit # {} /\ \A i \in hit : mem[i].quantity < q)
                  => (pc' = "idle" /\ resp' = "pull_insufficient")
            /\ pc' = "pullout" => \E i \in hit : mem[i].quantity >= q
            /\ PulledWithinHeld']_vars

\* Two pull-outs of one item have emptied one lot.
C10_Witness ==
    /\ pc = "pullout"
    /\ Len(new.moves) = 2
    /\ \E i \in DOMAIN mem :
         /\ tx.batches[i].quantity > 0
         /\ mem[i].quantity = 0
         /\ PulledAt(new.moves, mem[i].expiration_date) = tx.batches[i].quantity

\* The last submission recorded no stock movement (no delivery, transfer or
\* pull-out batch): whatever it consumed, it consumed as offtake.
OfftakeOnly == db.moves = pre.moves

\* C11: for an available pair whose active batches total more than the
\* low-stock threshold, a committed report whose offtake brings the active
\* total to or below the threshold leaves BranchProduct.quantity equal to the
\* reduced total and low_stock_since set.
C11_LowStockAfterOfftake ==
    (Created /\ OfftakeOnly) =>
        \A p \in Touched :
            (/\ pre.bp[p].present
             /\ pre.bp[p].is_available
             /\ ActiveSum(pre.batches, p) > Product(p).retail_low_stock_threshold
             /\ ActiveSum(db.batches, p) <= Product(p).retail_low_stock_threshold)
                => (/\ db.bp[p].quantity = ActiveSum(db.batches, p)
                    /\ db.bp[p].low_stock_since # NULL)

\* The last submission was created from one item on product p carrying one
\* delivery batch (q, e) and nothing else, and the pair had no batch before.
OnlyDelivery(p, q, e) ==
    /\ Created
    /\ cur.n = 1
    /\ Touched = {p}
    /\ db.items[cur.iid].offtake = 0
    /\ {i \in DOMAIN pre.batches : pre.batches[i].product_id = p} = {}
    /\ Len(db.moves) = Len(pre.moves) + 2
    /\ db.moves[Len(db.moves)] = InvReportBatch(cur.iid, "delivery", q, e)

\* What the first delivery leaves in the ledger and in the aggregate.
FirstDeliveryStock(p, q, e) ==
    /\ \E i \in DOMAIN db.batches :
         /\ ActiveOf(db.batches, p) = {i}
         /\ db.batches[i].quantity = q
         /\ db.batches[i].expiration_date = e
    /\ db.bp[p].quantity = q
    /\ db.bp[p].low_stock_since = NULL

\* C12 as stated: for a pair with no batches, a committed report carrying only
\* one delivery batch larger than the threshold results in exactly one active
\* batch of that quantity, BranchProduct.quantity equal to it, low_stock_since
\* null, and is_available equal to its value before the report.
C12_FirstDeliveryKeepsFlag ==
    \A p \in ProductIds, q \in QtyIn, e \in Dates :
        (OnlyDelivery(p, q, e) /\ q > Product(p).retail_low_stock_threshold)
            => (/\ FirstDeliveryStock(p, q, e)
                /\ db.bp[p].is_available = pre.bp[p].is_available)

\* C12, amended: the same report results in exactly one active batch of that
\* quantity, BranchProduct.quantity equal to it, low_stock_since null, and
\* is_available true whenever the aggregate was 0 before the report (the
\* 0 -> positive reactivation), its earlier value otherwise.
C12_FirstDelivery ==
    \A p \in ProductIds, q \in QtyIn, e \in Dates :
        (OnlyDelivery(p, q, e) /\ q > Product(p).retail_low_stock_threshold)
            => (/\ FirstDeliveryStock(p, q, e)
                /\ db.bp[p].is_available =
                      (pre.bp[p].quantity = 0 \/ pre.bp[p].is_available))

\* A first delivery has been committed for a pair that was not available.
C12_Witness ==
    \E p \in ProductIds, q \in QtyIn, e \in Dates :
        /\ OnlyDelivery(p, q, e)
        /\ q > Product(p).retail_low_stock_threshold
        /\ ~pre.bp[p].is_available
        /\ db.bp[p].is_available
        /\ db.bp[p].quantity = q

\* The Recompute of the current item's pair: update_branch_product_quantity
\* found the BranchProduct row.
RecomputeStep ==
    pc = "recompute" /\ pc' = "items" /\ tx.bp[cur.product_id].present

\* The current item received a delivery (its movement rows are flushed before
\* the pull-outs begin).
Delivered(moves) ==
    \E i \in DOMAIN moves :
        /\ moves[i].invreport_item_id = cur.iid
        /\ moves[i].batch_type = "delivery"

\* C14: auto-reactivation: a pair with BranchProduct.quantity = 0 and
\* is_available = false that receives a delivery making the active total
\* positive has is_available = true after the report's Recompute; and Recompute
\* never changes is_available from true to false for a product offered for the
\* branch's type.
C14_AutoReactivation ==
    [][RecomputeStep =>
        LET p == cur.product_id
        IN  /\ (/\ tx.bp[p].quantity = 0
                /\ ~tx.bp[p].is_available
                /\ Delivered(tx.moves)
                /\ ActiveSum(db'.batches, p) > 0)
                   => db'.bp[p].is_available
            /\ (tx.bp[p].is_available /\ ~NotOffered(cur.branch_id, p))
                   => db'.bp[p].is_available]_vars

\* A delivery to a pair that was at 0 and not available has been recomputed.
C14_Witness ==
    /\ pc = "items"
    /\ cur.n = 1
    /\ cur.iid \in DOMAIN db.items
    /\ Delivered(db.moves)
    /\ pre.bp[cur.product_id].quantity = 0
    /\ ~pre.bp[cur.product_id].is_available
    /\ ActiveSum(db.batches, cur.product_id) > 0
    /\ db.bp[cur.product_id].is_available

\* A Recompute of a pair whose product is offered for the branch's type.
TimerStep ==
    /\ arg'.kind = "recompute"
    /\ db.bp[cur'.product_id].present
    /\ ~NotOffered(cur'.branch_id, cur'.product_id)

\* C13: the low-stock timer is idempotent across recomputes: if low_stock_since
\* is set and the recomputed total is still at or below the threshold,
\* Recompute leaves it unchanged; if the total is above the threshold Recompute
\* sets it to null; and when the total later falls to or below the threshold
\* again for an available product, low_stock_since is set to the time of that
\* recompute, which is later than every value it held before.
C13_TimerIdempotent ==
    [][TimerStep =>
        LET p   == cur'.product_id
            bp  == db.bp[p]
            t   == arg'.quantity
            thr == Product(p).retail_low_stock_threshold
            since == db'.bp[p].low_stock_since
        IN  /\ bp.low_stock_since < clock
            /\ (bp.low_stock_since # NULL /\ t <= thr)
                  => since = bp.low_stock_since
            /\ t > thr => since = NULL
            /\ (bp.low_stock_since = NULL /\ t <= thr /\ bp.is_available)
                  => (since = clock /\ clock' > clock)]_vars

\* The timer has been set, cleared and set again: the value it holds is the
\* second reading of the clock.
C13_Witness ==
    /\ arg.kind = "recompute"
    /\ db.bp[cur.product_id].low_stock_since = 2
    /\ pre.bp[cur.product_id].low_stock_since = NULL

\* Both concurrent submissions were committed.
BothDone == \A s \in Sessions : sessions[s].pc = "done"

\* What a submission took out of the pair: its pull-outs and its offtake.
RECURSIVE MoveSum(_)
MoveSum(moves) ==
    IF moves = <<>> THEN 0 ELSE Head(moves).quantity + MoveSum(Tail(moves))

Consumed(s) == sessions[s].offtake + MoveSum(PullOutsOf(sessions[s].moves))

\* C15: for any interleaving of two concurrent submissions that both consume
\* (offtake or pull-out) from the same pair, no update is lost: if both commit,
\* the pair's active total decreases by the sum of both consumed quantities,
\* and the two never both succeed when their combined demand exceeds the stock
\* that was available.
C15_NoLostUpdate ==
    (/\ BothDone
     /\ \A s \in Sessions : Consumed(s) > 0 /\ Len(sessions[s].moves) < 2)
        => (/\ Consumed(1) + Consumed(2) <= ActiveSum(pre.batches, Pair.product_id)
            /\ ActiveSum(db.batches, Pair.product_id) =
                  ActiveSum(pre.batches, Pair.product_id)
                     - (Consumed(1) + Consumed(2)))

\* C16: for any interleaving of two concurrent submissions that each deliver
\* one batch with the same expiration date to the same pair, the committed
\* result never contains two active batches for that (branch, product, date).
C16_NoConcurrentDuplicate ==
    \A e \in Dates :
        (/\ BothDone
         /\ \A s \in Sessions :
              /\ Len(sessions[s].moves) = 2
              /\ sessions[s].moves[2].batch_type = "delivery"
              /\ sessions[s].moves[2].expiration_date = e
              /\ sessions[s].offtake = 0)
            => Cardinality(ActiveAt(db.batches, Pair.product_id, e)) <= 1

\* C17: in every reachable state every ProductBatch.quantity is an integer
\* >= 0, for every sequence of reports whose item quantities are any integers
\* the request schema accepts.
C17_QuantityNonNegative ==
    \A i \in DOMAIN db.batches : db.batches[i].quantity >= 0

\* C18: the inventory_level and product_offtake metric records of a submission
\* are emitted only after the final commit of that submission has succeeded
\* (the report and its items are durable and the session holds nothing
\* uncommitted), and a submission that fails or rolls back emits none.
C18_MetricsAfterCommit ==
    [][/\ db'.metrics # db.metrics =>
            /\ cur.rid \in DOMAIN db.reports
            /\ tx = db /\ new = EmptyNew /\ dirty = <<>>
            /\ db'.metrics = db.metrics \o
                  MetricsOf(SelectSeq(db.items,
                                      LAMBDA item : item.invreport_id = cur.rid),
                            db.reports[cur.rid].branch_id)
            /\ pc' = "idle" /\ resp' = "created"
       /\ (pc' = "idle" /\ resp' # "created") => db'.metrics = pre'.metrics]_vars

\* A created report has emitted an inventory_level and a product_offtake
\* record.
C18_Witness ==
    /\ Created
    /\ Len(db.metrics) >= Len(pre.metrics) + 2
    /\ db.metrics[Len(db.metrics)].metric_type = "product_offtake"
    /\ db.metrics[Len(db.metrics)].value > 0

\* The ids of the admins.
AdminIds == {u.id : u \in {v \in Users : v.role = "admin"}}

\* The rows of a created report: the report, its items, and the movement
\* records tied to them.
ItemsOf(store, r) == {i \in DOMAIN store.items : store.items[i].invreport_id = r}

MovesOf(store, r) ==
    {j \in DOMAIN store.moves :
        store.moves[j].invreport_item_id \in ItemsOf(store, r)}

\* The submission that made report r is over (its items are all written, or
\* it was abandoned).
Submitted(r) == pc \in {"idle", "metrics"} \/ r # cur.rid

C20_FrozenPrices ==
    [][/\ \A i \in DOMAIN db.items :
             /\ i \in DOMAIN db'.items
             /\ db'.items[i].current_cost = db.items[i].current_cost
             /\ db'.items[i].current_srp = db.items[i].current_srp
       /\ \A i \in DOMAIN db'.items \ DOMAIN db.items :
             /\ db'.items[i].current_cost =
                    db.products[db'.items[i].product_id].cost
             /\ db'.items[i].current_srp =
                    db.products[db'.items[i].product_id].srp]_vars

\* A price update was committed between two reports on the product: the
\* earlier item keeps the price it was created with, the later one carries
\* the revised price.
C20_Witness ==
    \E i, j \in DOMAIN db.items, p \in Reported :
        /\ i < j
        /\ db.items[i].product_id = p /\ db.items[j].product_id = p
        /\ db.items[i].current_cost = Catalog(p).cost
        /\ db.items[i].current_srp = Catalog(p).srp
        /\ db.products[p].cost # Catalog(p).cost
        /\ db.products[p].srp # Catalog(p).srp
        /\ db.items[j].current_cost = db.products[p].cost
        /\ db.items[j].current_srp = db.products[p].srp

\* C21: after any sequence of branch and product creations there is a
\* branch_products row for every (branch, product) pair, whatever the order
\* of the creations and the branches' is_active flags.
C21_EveryPairSeeded ==
    \A b \in DOMAIN db.branches, p \in DOMAIN db.products :
        \E row \in db.bp : row.branch_id = b /\ row.product_id = p

\* A create_transaction that was accepted.
TransactionCreated == Len(db'.transactions) = Len(db.transactions) + 1

\* C22: create_transaction accepts a transaction only when its remaining
\* balance is within the client's available credit, and available credit that
\* is non-negative before the creation is non-negative right after its commit.
C22_CreditStaysNonNegative ==
    [][(TransactionCreated /\ available_credit(db.client) >= 0)
          => available_credit(db'.client) >= 0]_vars

\* The non-void transactions of the store.
LiveTransactions(store) ==
    {t \in DOMAIN store.transactions : ~store.transactions[t].is_void}

RECURSIVE Outstanding(_, _)
Outstanding(transactions, S) ==
    IF S = {} THEN 0
    ELSE LET t == CHOOSE x \in S : TRUE
         IN  balance(transactions[t]) + Outstanding(transactions, S \ {t})

\* C23: the client's current_balance is the sum, over the client's non-void
\* transactions, of total_amount - amount_paid.
C23_BalanceIsOutstanding ==
    db.client.current_balance =
        Outstanding(db.transactions, LiveTransactions(db))

\* C30: every transaction has 0 <= amount_paid <= total_amount and an
\* amount_paid equal to the sum of its non-void payments, and no payment is
\* accepted on a void transaction.
C30_PaymentsConsistent ==
    [][/\ \A t \in DOMAIN db'.transactions :
             /\ 0 <= db'.transactions[t].amount_paid
             /\ db'.transactions[t].amount_paid <= db'.transactions[t].total_amount
             /\ db'.transactions[t].amount_paid =
                    SumAmount(db'.payments, LivePayments(db'.payments, t))
       /\ \A i \in DOMAIN db'.payments \ DOMAIN db.payments :
             /\ db'.payments[i].transaction_id \in DOMAIN db.transactions
                    => ~db.transactions[db'.payments[i].transaction_id].is_void]_vars

\* C24: the classifier returns exactly one tier for every batch and day:
\* expired when days <= 0, critical when 1 <= days <= 30, warning when
\* 31 <= days <= 90, good when days > 90, with days = expiration_date - today.
C24_ExpiryTiers ==
    resp # "none" =>
        LET days == arg.expiration_date - clock
        IN  /\ resp \in {"expired", "critical", "warning", "good"}
            /\ resp = "expired" <=> days <= 0
            /\ resp = "critical" <=> (1 <= days /\ days <= 30)
            /\ resp = "warning" <=> (31 <= days /\ days <= 90)
            /\ resp = "good" <=> days > 90

\* A batch 90 days from its date was classified: the last day of warning.
C24_Witness ==
    resp = "warning" /\ arg.expiration_date - clock = 90

\* The movement records of the current item of one of the given types, flushed
\* or pending.
ItemMoves(types) ==
    SelectSeq(tx.moves \o new.moves,
              LAMBDA m : m.invreport_item_id = cur.iid /\ m.batch_type \in types)

\* What the pair held before the current item, plus the item's deliveries and
\* transfers, minus its pull-outs.
ItemStock ==
    ActiveSum(db.batches, cur.product_id)
        + MoveSum(ItemMoves({"delivery", "transfer"}))
        - MoveSum(ItemMoves({"pull_out"}))

\* C25: when the offtake of an item is checked, the total available is the sum
\* of the pair's active batches as the item's deliveries, transfers and
\* pull-outs left them - nothing pending is added to it a second time - which
\* is the prior stock plus the item's incoming minus its pull-outs; an
\* offtake within that total succeeds.
C25_OfftakeSeesOwnStock ==
    [][pc = "offtake" =>
         /\ TotalAvailable(cur.product_id) = ActiveSum(mem, cur.product_id)
         /\ PendingRefs(cur.product_id) = {}
         /\ TotalAvailable(cur.product_id) = ItemStock
         /\ (arg'.quantity > 0 /\ arg'.quantity <= ItemStock)
                => pc' = "recompute"
         /\ arg'.quantity > ItemStock
                => (pc' = "idle" /\ resp' = "offtake_insufficient")]_vars

\* An offtake succeeded that the prior stock alone could not cover, on an
\* item that also pulled out.
C25_Witness ==
    /\ pc = "recompute"
    /\ arg.kind = "offtake"
    /\ arg.quantity > ActiveSum(db.batches, cur.product_id)
    /\ Len(ItemMoves({"pull_out"})) > 0
    /\ Len(ItemMoves({"delivery", "transfer"})) > 0

\* The stages of one report item, in the order of the code.
Stage(at) ==
    CASE at = "deliver" -> 1
      [] at = "transfer" -> 2
      [] at = "pullout" -> 3
      [] at = "offtake" -> 4
      [] at = "recompute" -> 5
      [] OTHER -> 0

\* The batch operation a stage performs.
StageKind(at) ==
    CASE at = "deliver" -> "delivery"
      [] at = "transfer" -> "transfer"
      [] at = "pullout" -> "pull_out"
      [] at = "offtake" -> "offtake"
      [] OTHER -> "none"

\* C26: within a report item the batch operations run in the order delivery
\* Adds, transfer Adds, pull-outs, offtake consume, Recompute: a step of the
\* item never returns to an earlier stage and performs the operation of its
\* stage only; the consume takes its quantity out of what the pull-outs left;
\* and Recompute ends the item, so that it never runs between two batch
\* mutations of the item.
C26_ItemOrder ==
    [][/\ (Stage(pc) > 0 /\ Stage(pc') > 0)
            => (Stage(pc') >= Stage(pc) /\ cur'.iid = cur.iid)
       /\ (Stage(pc) > 0 /\ arg'.kind # "none") => arg'.kind = StageKind(pc)
       /\ (Stage(pc) \in 1..3 /\ pc' = pc)
            => (db' = db /\ tx' = tx /\ tx.bp = db.bp)
       /\ ConsumeStep
            => ActiveSum(mem', cur.product_id) =
                  ActiveSum(mem, cur.product_id) - arg'.quantity
       /\ pc = "recompute" => pc' \in {"items", "idle"}]_vars

\* An item delivered a lot the pair did not hold, pulled out of that lot, and
\* then consumed an offtake.
C26_Witness ==
    /\ pc = "recompute"
    /\ arg.kind = "offtake" /\ arg.quantity > 0
    /\ \E i \in DOMAIN ItemMoves({"pull_out"}) :
          LET e == ItemMoves({"pull_out"})[i].expiration_date
          IN  /\ ActiveAt(db.batches, cur.product_id, e) = {}
              /\ \E j \in DOMAIN ItemMoves({"delivery", "transfer"}) :
                    ItemMoves({"delivery", "transfer"})[j].expiration_date = e

\* C27: every movement record a committed report persisted is tied to one of
\* the report's items: no movement record without a report item exists.
C27_MovesTied ==
    Created =>
        \A j \in DOMAIN db.moves :
            j > Len(pre.moves) =>
                /\ db.moves[j].invreport_item_id \in DOMAIN db.items
                /\ db.items[db.moves[j].invreport_item_id].invreport_id = cur.rid

\* The items the last submission persisted on product p.
ReportItems(p) ==
    {i \in DOMAIN db.items :
        db.items[i].invreport_id = cur.rid /\ db.items[i].product_id = p}

\* The movement records of the given types tied to those items.
ReportMoves(p, types) ==
    SelectSeq(db.moves,
              LAMBDA m : /\ m.invreport_item_id \in ReportItems(p)
                         /\ m.batch_type \in types)

RECURSIVE OfftakeSum(_)
OfftakeSum(S) ==
    IF S = {} THEN 0
    ELSE LET i == CHOOSE x \in S : TRUE
         IN  db.items[i].offtake + OfftakeSum(S \ {i})

\* No quantity of the last submission's movement records is negative.
NonNegative ==
    \A j \in DOMAIN db.moves :
        j > Len(pre.moves) => db.moves[j].quantity >= 0

\* C28: stock conservation: after a committed report with non-negative
\* quantities, the pair's active total is what it was before the report, plus
\* the delivery and transfer quantities of the report's items on the product,
\* minus their pull-out quantities, minus their offtake.
C28_StockConservation ==
    (Created /\ NonNegative) =>
        \A p \in ProductIds :
            ActiveSum(db.batches, p) =
                ActiveSum(pre.batches, p)
                    + MoveSum(ReportMoves(p, {"delivery", "transfer"}))
                    - MoveSum(ReportMoves(p, {"pull_out"}))
                    - OfftakeSum(ReportItems(p))

\* A committed report delivered to, pulled out of and consumed from a pair
\* that held stock before it.
C28_Witness ==
    /\ Created /\ NonNegative
    /\ \E p \in ProductIds :
          /\ ActiveSum(pre.batches, p) > 0
          /\ MoveSum(ReportMoves(p, {"delivery", "transfer"})) > 0
          /\ MoveSum(ReportMoves(p, {"pull_out"})) > 0
          /\ OfftakeSum(ReportItems(p)) > 0

\* C29: after every Recompute of a pair whose product is offered for the
\* branch's type, is_available together with quantity <= threshold implies
\* that low_stock_since is set, and low_stock_since set implies
\* quantity <= threshold - also when the Recompute reactivates the pair.
C29_LowStockFlag ==
    [][TimerStep =>
        LET p   == cur'.product_id
            bp  == db'.bp[p]
            thr == Product(p).retail_low_stock_threshold
        IN  /\ (bp.is_available /\ bp.quantity <= thr)
                  => bp.low_stock_since # NULL
            /\ bp.low_stock_since # NULL => bp.quantity <= thr]_vars

====
